---- MODULE Spec2Model ----
(***************************************************************************)
(* Coffee-shop backend (backend/src/api.py): five HTTP endpoints over a    *)
(* store of Drinks, four of them behind a permission guard, three of them  *)
(* running their store mutation inside a Transaction.                      *)
(*                                                                         *)
(* Each request is handled in one atomic step (one request, one unit of    *)
(* work, one commit or rollback).  The guard (auth/auth.py), the Drink     *)
(* model and the Transaction wrapper (database/models.py) are modelled     *)
(* from the specification's sections 3, 4.1, 4.2 and 4.3.                   *)
(***************************************************************************)
EXTENDS Integers, Sequences, FiniteSets, TLC

VARIABLES
    store,      \* the drinks table: a function from the ids in use to Drink rows
    last,       \* the last request handled, with what happened and its response
    deleted     \* history: the ids some DELETE has removed successfully so far

vars == <<store, last, deleted>>

(***************************************************************************)
(* Bounds.                                                                 *)
(***************************************************************************)
MaxId == 2

Ids == 1..MaxId

(***************************************************************************)
(* JSON values of a request body.  A value is tagged with its JSON type so *)
(* that Python truthiness can be computed from it.                         *)
(***************************************************************************)
Absent == [t |-> "absent"]

Str(s) == [t |-> "str", v |-> s]

List(q) == [t |-> "list", v |-> q]

Milk == [name |-> "milk", color |-> "white", parts |-> 1]

Espresso == [name |-> "espresso", color |-> "brown", parts |-> 2]

Titles == {"", "latte", "mocha"}

Recipes == {<<>>, <<Milk, Espresso>>}

\* A body that get_json() does not turn into a dict (no JSON, or a JSON array).
NotAnObject == [kind |-> "not_object"]

ObjectBodies ==
    { [kind |-> "object", title |-> t, recipe |-> r] :
        t \in {Absent} \cup {Str(s) : s \in Titles},
        r \in {Absent} \cup {List(q) : q \in Recipes} }

Bodies == {NotAnObject} \cup ObjectBodies

\* request_json.get(key, default)
Get(v, default) == IF v.t = "absent" THEN default ELSE v

\* Python truthiness of a JSON value
Truthy(v) ==
    CASE v.t = "absent" -> FALSE
      [] v.t = "str"    -> v.v # ""
      [] v.t = "list"   -> v.v # <<>>

(***************************************************************************)
(* json.dumps / json.loads of a recipe: the stored text is a sequence of   *)
(* tokens, eight per ingredient, separated by commas, in brackets.         *)
(***************************************************************************)
NumStr == <<"1", "2", "3">>

StrNum(s) == CHOOSE n \in 1..Len(NumStr) : NumStr[n] = s

dumps_ingredient(i) ==
    <<"{", "name", i.name, "color", i.color, "parts", NumStr[i.parts], "}">>

RECURSIVE dumps_items(_)
dumps_items(q) ==
    IF q = <<>> THEN <<>>
    ELSE IF Len(q) = 1 THEN dumps_ingredient(Head(q))
    ELSE dumps_ingredient(Head(q)) \o <<",">> \o dumps_items(Tail(q))

json_dumps(q) == <<"[">> \o dumps_items(q) \o <<"]">>

RECURSIVE loads_items(_)
loads_items(toks) ==
    IF Len(toks) < 8 THEN <<>>
    ELSE <<[name |-> toks[3], color |-> toks[5], parts |-> StrNum(toks[7])]>>
         \o loads_items(SubSeq(toks, 10, Len(toks)))

json_loads(text) == loads_items(SubSeq(text, 2, Len(text) - 1))

(***************************************************************************)
(* The Drink model: rows [id, title, recipe] with the recipe stored as     *)
(* text, and its two projections.                                          *)
(***************************************************************************)
\* Drink.long(): id, title and the full recipe
long(d) == [id |-> d.id, title |-> d.title, recipe |-> json_loads(d.recipe)]

\* Drink.short(): id, title and only color and parts of each ingredient
short(d) ==
    LET r == json_loads(d.recipe)
    IN [id |-> d.id, title |-> d.title,
        recipe |-> [k \in 1..Len(r) |-> [color |-> r[k].color, parts |-> r[k].parts]]]

\* Drink.query.all(): the rows, in id order
RECURSIVE query_all_from(_, _)
query_all_from(s, k) ==
    IF k > MaxId THEN <<>>
    ELSE (IF k \in DOMAIN s THEN <<s[k]>> ELSE <<>>) \o query_all_from(s, k + 1)

query_all(s) == query_all_from(s, 1)

\* drink.insert(): the row is added to the session
insert(s, d) == [k \in DOMAIN s \cup {d.id} |-> IF k = d.id THEN d ELSE s[k]]

\* drink.delete(): the row is removed from the session
delete(s, id) == [k \in DOMAIN s \ {id} |-> s[k]]

(***************************************************************************)
(* Bearer tokens, the token verifier and the authorization guard.          *)
(***************************************************************************)
Permissions == {"get:drinks-detail", "post:drinks", "patch:drinks", "delete:drinks"}

PermSets ==
    { {}, {"get:drinks-detail", "patch:drinks"}, {"post:drinks", "delete:drinks"},
      Permissions }

Tokens ==
    { [kind |-> k, permissions |-> {}] : k \in {"missing", "malformed", "invalid", "expired"} }
    \cup { [kind |-> "valid", permissions |-> p] : p \in PermSets }

\* an authorization failure: AuthError(error, status_code)
AuthError(error, status_code) ==
    [kind |-> "auth", error |-> error, status_code |-> status_code]

\* an abort(code) of the framework
HTTPException(code) == [kind |-> "http", error |-> "", status_code |-> code]

NoSignal == [kind |-> "none", error |-> "", status_code |-> 0]

\* Token Verifier: the failure of a token, or NoSignal when it verifies
verify(tok) ==
    CASE tok.kind = "missing"   -> AuthError("MissingToken", 401)
      [] tok.kind = "malformed" -> AuthError("MalformedToken", 400)
      [] tok.kind = "invalid"   -> AuthError("InvalidSignature", 401)
      [] tok.kind = "expired"   -> AuthError("ExpiredToken", 401)
      [] tok.kind = "valid"     -> NoSignal

\* the guard's decision for a required permission
check_permissions(permission, tok) ==
    IF verify(tok).kind # "none" THEN verify(tok)
    ELSE IF permission \notin tok.permissions THEN AuthError("InsufficientScope", 403)
    ELSE NoSignal

(***************************************************************************)
(* Responses and the top-level error responder.                            *)
(***************************************************************************)
Response(status, json, success, error, message, drinks, del) ==
    [status |-> status, json |-> json, success |-> success, error |-> error,
     message |-> message, drinks |-> drinks, delete |-> del]

NoResponse == Response(0, FALSE, FALSE, 0, "", <<>>, 0)

\* jsonify({'success': True, 'drinks': drinks})
drinks_response(drinks) == Response(200, TRUE, TRUE, 0, "", drinks, 0)

\* jsonify({'success': True, 'delete': id})
delete_response(id) == Response(200, TRUE, TRUE, 0, "", <<>>, id)

\* jsonify({'success': False, 'error': e, 'message': m}), status
error_response(status, e, m) == Response(status, TRUE, FALSE, e, m, <<>>, 0)

unprocessable(error) == error_response(422, 422, "unprocessable")

\* variant: the 404 handler answers with the 422 body and status
resource_not_found_as_unprocessable(error) == error_response(422, 422, "unprocessable")

resource_not_found(error) == error_response(404, 404, "resource not found")

\* variant: the AuthError handler always answers 401
auth_error_always_401(error) == error_response(401, 401, error.error)

auth_error(error) == error_response(error.status_code, error.status_code, error.error)

\* no handler is registered: the framework's own error page, which is not JSON
default_error_page(error) == Response(error.status_code, FALSE, FALSE, 0, "", <<>>, 0)

\* the handlers api.py registers with app.errorhandler, tried in turn
handle_exception(error) ==
    IF error.kind = "auth" THEN auth_error(error)
    ELSE IF error.status_code = 422 THEN unprocessable(error)
    ELSE IF error.status_code = 404 THEN resource_not_found(error)
    ELSE default_error_page(error)

(***************************************************************************)
(* The Transaction wrapper.  A unit of work works on the session (a copy   *)
(* of the table with its pending changes) and either aborts with a status  *)
(* code or returns a Drink; run() commits the session or rolls it back.    *)
(***************************************************************************)
\* abort(code) inside the unit of work
abort(code, session) ==
    [kind |-> "abort", code |-> code, session |-> session, drink |-> <<>>]

\* the unit of work returns normally
return(drink, session) ==
    [kind |-> "return", code |-> 0, session |-> session, drink |-> drink]

\* Transaction.run(): what became of the table, what was committed or rolled
\* back, and the signal raised (NoSignal when the drink is to be rendered)
Transaction_run(s, unit, commitOk) ==
    IF unit.kind = "abort"
    THEN [store |-> s, commits |-> 0, rollbacks |-> 1, aborted |-> unit.code,
          raised |-> HTTPException(unit.code), drink |-> unit.drink]
    ELSE IF commitOk
    THEN [store |-> unit.session, commits |-> 1, rollbacks |-> 0, aborted |-> 0,
          raised |-> NoSignal, drink |-> unit.drink]
    ELSE [store |-> s, commits |-> 0, rollbacks |-> 1, aborted |-> 0,
          raised |-> HTTPException(500), drink |-> unit.drink]

(***************************************************************************)
(* What handling one request comes to.                                     *)
(***************************************************************************)
Result(s, ran, invoked, commits, rollbacks, aborted, resp) ==
    [store |-> s, ran |-> ran, invoked |-> invoked, commits |-> commits,
     rollbacks |-> rollbacks, aborted |-> aborted, resp |-> resp]

\* a handler that ran without a transaction
plain(s, resp) == Result(s, TRUE, 0, 0, 0, 0, resp)

\* a handler that returned tx.success(render).run()
ran_tx(t, rendered) ==
    Result(t.store, TRUE, 1, t.commits, t.rollbacks, t.aborted,
           IF t.raised.kind = "none" THEN rendered ELSE handle_exception(t.raised))

\* requires_auth(permission): the handler's result, or the guard's failure
requires_auth(permission, tok, s, handled) ==
    IF check_permissions(permission, tok).kind = "none" THEN handled
    ELSE Result(s, FALSE, 0, 0, 0, 0, handle_exception(check_permissions(permission, tok)))

(***************************************************************************)
(* The five handlers of api.py.                                            *)
(***************************************************************************)
get_drinks(s) ==
    plain(s, drinks_response([k \in 1..Len(query_all(s)) |-> short(query_all(s)[k])]))

get_drinks_detail(s) ==
    plain(s, drinks_response([k \in 1..Len(query_all(s)) |-> long(query_all(s)[k])]))

\* variant: the unit of work forgets drink.insert()
post_drink_tx_without_insert(s, body, newId) ==
    IF body.kind # "object" THEN abort(422, s)
    ELSE LET title == Get(body.title, Str(""))
             recipe == Get(body.recipe, List(<<>>))
             drink == [id |-> newId, title |-> title.v, recipe |-> json_dumps(recipe.v)]
         IN return(drink, s)

\* the unit of work of post_drink
post_drink_tx(s, body, newId) ==
    IF body.kind # "object" THEN abort(422, s)
    ELSE LET title == Get(body.title, Str(""))
             recipe == Get(body.recipe, List(<<>>))
             drink == [id |-> newId, title |-> title.v, recipe |-> json_dumps(recipe.v)]
         IN return(drink, insert(s, drink))

\* variant: the handler builds the transaction and never runs it
post_drink_without_run(s, body, newId, commitOk) ==
    Result(s, TRUE, 0, 0, 0, 0, default_error_page(HTTPException(500)))

post_drink(s, body, newId, commitOk) ==
    LET t == Transaction_run(s, post_drink_tx(s, body, newId), commitOk)
    IN ran_tx(t, drinks_response(<<long(t.drink)>>))

\* variant: the unit of work assigns title and recipe whether or not they are truthy
update_drink_tx_unconditional(s, id, body) ==
    IF id \notin DOMAIN s THEN abort(404, s)
    ELSE IF body.kind # "object" THEN abort(422, s)
    ELSE LET title == Get(body.title, Str(""))
             recipe == Get(body.recipe, List(<<>>))
             d2 == [s[id] EXCEPT !.title = title.v, !.recipe = json_dumps(recipe.v)]
         IN return(d2, [s EXCEPT ![id] = d2])

\* the unit of work of update_drink
update_drink_tx(s, id, body) ==
    IF id \notin DOMAIN s THEN abort(404, s)
    ELSE IF body.kind # "object" THEN abort(422, s)
    ELSE LET title == Get(body.title, Str(""))
             d1 == IF Truthy(title) THEN [s[id] EXCEPT !.title = title.v] ELSE s[id]
             recipe == Get(body.recipe, List(<<>>))
             d2 == IF Truthy(recipe) THEN [d1 EXCEPT !.recipe = json_dumps(recipe.v)] ELSE d1
         IN return(d2, [s EXCEPT ![id] = d2])

update_drink(s, id, body, commitOk) ==
    LET t == Transaction_run(s, update_drink_tx(s, id, body), commitOk)
    IN ran_tx(t, drinks_response(<<long(t.drink)>>))

\* variant: the unit of work forgets drink.delete()
delete_drinks_tx_without_delete(s, id) ==
    IF id \notin DOMAIN s THEN abort(404, s)
    ELSE return(s[id], s)

\* the unit of work of delete_drinks
delete_drinks_tx(s, id) ==
    IF id \notin DOMAIN s THEN abort(404, s)
    ELSE return(s[id], delete(s, id))

delete_drinks(s, id, commitOk) ==
    LET t == Transaction_run(s, delete_drinks_tx(s, id), commitOk)
    IN ran_tx(t, delete_response(t.drink.id))

(***************************************************************************)
(* The routes: each handler as app.route registers it.                     *)
(***************************************************************************)
\* variant: the public listing is put behind the guard
route_get_drinks_guarded(s, tok) ==
    requires_auth("get:drinks-detail", tok, s, get_drinks(s))

route_get_drinks(s, tok) == get_drinks(s)

route_get_drinks_detail(s, tok) ==
    requires_auth("get:drinks-detail", tok, s, get_drinks_detail(s))

route_post_drink(s, tok, body, newId, commitOk) ==
    requires_auth("post:drinks", tok, s, post_drink(s, body, newId, commitOk))

\* variant: the drink is looked up before the guard is asked
route_update_drink_lookup_first(s, tok, id, body, commitOk) ==
    IF id \notin DOMAIN s
    THEN Result(s, TRUE, 0, 0, 0, 0, handle_exception(HTTPException(404)))
    ELSE requires_auth("patch:drinks", tok, s, update_drink(s, id, body, commitOk))

route_update_drink(s, tok, id, body, commitOk) ==
    requires_auth("patch:drinks", tok, s, update_drink(s, id, body, commitOk))

\* variant: the delete route asks for the update permission
route_delete_drinks_wrong_permission(s, tok, id, commitOk) ==
    requires_auth("patch:drinks", tok, s, delete_drinks(s, id, commitOk))

route_delete_drinks(s, tok, id, commitOk) ==
    requires_auth("delete:drinks", tok, s, delete_drinks(s, id, commitOk))

(***************************************************************************)
(* The state machine.  Requests are served one at a time: a request is     *)
(* handled in one step, which leaves the response in last, and the next    *)
(* step sends the response and discards the request's context.             *)
(***************************************************************************)
\* a request, with what the store will answer if the request comes to a commit
Request(endpoint, tok, id, body, commitOk) ==
    [endpoint |-> endpoint, token |-> tok, id |-> id, body |-> body,
     commitOk |-> commitOk]

Last(req, r) ==
    [endpoint |-> req.endpoint, token |-> req.token, id |-> req.id, body |-> req.body,
     commitOk |-> req.commitOk, ran |-> r.ran, invoked |-> r.invoked, commits |-> r.commits,
     rollbacks |-> r.rollbacks, aborted |-> r.aborted, resp |-> r.resp]

\* no request is being served
Idle ==
    Last(Request("none", [kind |-> "missing", permissions |-> {}], 0, NotAnObject, TRUE),
         Result(<<>>, FALSE, 0, 0, 0, 0, NoResponse))

Init ==
    /\ store = <<>>
    /\ last = Idle
    /\ deleted = {}

\* the request is answered: the table and the record of the request change
Answer(req, r) ==
    /\ store' = r.store
    /\ last' = Last(req, r)
    /\ deleted' = IF req.endpoint = "DELETE /drinks/id" /\ r.resp.status = 200
                  THEN deleted \cup {req.id} ELSE deleted

Handle(req, handled) == \E r \in {handled} : Answer(req, r)

\* the guard lets the request through to the handler
Admitted(permission, tok) == check_permissions(permission, tok).kind = "none"

\* the ids the store can give a new row
FreeIds == Ids \ DOMAIN store

GetDrinks ==
    /\ last = Idle
    /\ \E tok \in Tokens :
           Handle(Request("GET /drinks", tok, 0, NotAnObject, TRUE),
                  route_get_drinks(store, tok))

GetDrinksDetail ==
    /\ last = Idle
    /\ \E tok \in Tokens :
           Handle(Request("GET /drinks-detail", tok, 0, NotAnObject, TRUE),
                  route_get_drinks_detail(store, tok))

\* the guard turns the request away: no id is drawn and nothing is committed
PostDrinkRejected ==
    /\ last = Idle
    /\ \E tok \in Tokens :
           /\ ~Admitted("post:drinks", tok)
           /\ \E body \in Bodies :
                  Handle(Request("POST /drinks", tok, 0, body, TRUE),
                         route_post_drink(store, tok, body, 0, TRUE))

PostDrink ==
    /\ last = Idle
    /\ \E tok \in Tokens :
           /\ Admitted("post:drinks", tok)
           /\ \E body \in Bodies, newId \in FreeIds, commitOk \in BOOLEAN :
                  Handle(Request("POST /drinks", tok, 0, body, commitOk),
                         route_post_drink(store, tok, body, newId, commitOk))

UpdateDrinkRejected ==
    /\ last = Idle
    /\ \E tok \in Tokens :
           /\ ~Admitted("patch:drinks", tok)
           /\ \E id \in Ids, body \in Bodies :
                  Handle(Request("PATCH /drinks/id", tok, id, body, TRUE),
                         route_update_drink(store, tok, id, body, TRUE))

UpdateDrink ==
    /\ last = Idle
    /\ \E tok \in Tokens :
           /\ Admitted("patch:drinks", tok)
           /\ \E id \in Ids, body \in Bodies, commitOk \in BOOLEAN :
                  Handle(Request("PATCH /drinks/id", tok, id, body, commitOk),
                         route_update_drink(store, tok, id, body, commitOk))

DeleteDrinks ==
    /\ last = Idle
    /\ \E tok \in Tokens, id \in Ids, commitOk \in BOOLEAN :
           Handle(Request("DELETE /drinks/id", tok, id, NotAnObject, commitOk),
                  route_delete_drinks(store, tok, id, commitOk))

\* the response is sent and the request's context is discarded
SendResponse ==
    /\ last # Idle
    /\ last' = Idle
    /\ UNCHANGED <<store, deleted>>

Next ==
    \/ GetDrinks
    \/ GetDrinksDetail
    \/ PostDrinkRejected
    \/ PostDrink
    \/ UpdateDrinkRejected
    \/ UpdateDrink
    \/ DeleteDrinks
    \/ SendResponse

Spec == Init /\ [][Next]_vars

(***************************************************************************)
(* Vocabulary of the properties, stated apart from the handlers.           *)
(***************************************************************************)
Protected ==
    {"GET /drinks-detail", "POST /drinks", "PATCH /drinks/id", "DELETE /drinks/id"}

Mutating == {"POST /drinks", "PATCH /drinks/id", "DELETE /drinks/id"}

\* the permission each protected endpoint is documented to require
Documented(endpoint) ==
    CASE endpoint = "GET /drinks-detail" -> "get:drinks-detail"
      [] endpoint = "POST /drinks"       -> "post:drinks"
      [] endpoint = "PATCH /drinks/id"   -> "patch:drinks"
      [] endpoint = "DELETE /drinks/id"  -> "delete:drinks"

\* the token verified and holds the endpoint's documented permission
Entitled(l) ==
    /\ l.token.kind = "valid"
    /\ Documented(l.endpoint) \in l.token.permissions

\* a JSON value that is present and non-empty
Supplied(v) == (v.t = "str" /\ v.v # "") \/ (v.t = "list" /\ v.v # <<>>)

\* the ids of the entries of a rendered list
ListedIds(drinks) == {drinks[k].id : k \in 1..Len(drinks)}

\* the uniform error body
UniformError(resp) ==
    /\ resp.json
    /\ resp.success = FALSE
    /\ resp.error = resp.status
    /\ resp.message # ""

(***************************************************************************)
(* C1.  A protected handler runs only for a request whose token verified   *)
(* and holds the endpoint's required permission; no protected handler has  *)
(* run, and no transaction was started, for a missing, malformed, invalid, *)
(* expired or under-privileged token.                                      *)
(***************************************************************************)
C1_HandlerRunsOnlyWhenEntitled ==
    (last.endpoint \in Protected /\ (last.ran \/ last.invoked > 0 \/ last.commits > 0))
        => Entitled(last)

C1_Witness ==
    /\ last.endpoint = "DELETE /drinks/id"
    /\ last.ran
    /\ last.token.permissions = {"post:drinks", "delete:drinks"}
    /\ last.resp.status = 200

C3_AbortLeavesStore ==
    [][ /\ (last'.endpoint \in Mutating /\ last'.aborted \in {404, 422}) =>
              /\ store' = store
              /\ last'.resp.status = last'.aborted
              /\ last'.resp.error = last'.aborted
              /\ last'.aborted = 404 =>
                     (last'.endpoint # "POST /drinks" /\ last'.id \notin DOMAIN store)
              /\ last'.aborted = 422 =>
                     (last'.endpoint # "DELETE /drinks/id" /\ last'.body.kind # "object")
        /\ (last'.endpoint \in {"PATCH /drinks/id", "DELETE /drinks/id"}
              /\ last'.ran /\ last'.id \notin DOMAIN store) => last'.aborted = 404
        /\ (last'.endpoint = "POST /drinks" /\ last'.ran /\ last'.body.kind # "object")
              => last'.aborted = 422
      ]_vars

C3_Witness ==
    /\ last.endpoint = "PATCH /drinks/id"
    /\ last.aborted = 422
    /\ last.resp.status = 422
    /\ last.id \in DOMAIN store
    /\ Cardinality(DOMAIN store) = 2

C5_PatchChangesOnlySuppliedFields ==
    [][ (last'.endpoint = "PATCH /drinks/id" /\ last'.resp.status = 200) =>
            /\ last'.id \in DOMAIN store
            /\ DOMAIN store' = DOMAIN store
            /\ \A j \in DOMAIN store \ {last'.id} : store'[j] = store[j]
            /\ store'[last'.id].id = store[last'.id].id
            /\ store'[last'.id].id = last'.id
            /\ IF Supplied(last'.body.title)
               THEN store'[last'.id].title = last'.body.title.v
               ELSE store'[last'.id].title = store[last'.id].title
            /\ IF Supplied(last'.body.recipe)
               THEN json_loads(store'[last'.id].recipe) = last'.body.recipe.v
               ELSE store'[last'.id].recipe = store[last'.id].recipe
      ]_vars

C5_Witness ==
    /\ last.endpoint = "PATCH /drinks/id"
    /\ last.resp.status = 200
    /\ last.body.title = Str("mocha")
    /\ last.body.recipe = Absent
    /\ Cardinality(DOMAIN store) = 2
    /\ store[last.id].title = "mocha"
    /\ json_loads(store[last.id].recipe) = <<Milk, Espresso>>

(***************************************************************************)
(* C6.  DELETE /drinks/{id} by an authorized caller, the store accepting   *)
(* the commit: an existing Drink is removed and no list contains it any    *)
(* more, the other Drinks are untouched and the response is success with   *)
(* delete = id; an absent id is answered 404.                              *)
(*                                                                         *)
(* C6_NeverASecondSuccess is the claim's last sentence as written: in any  *)
(* sequence of requests, a DELETE of an id that a DELETE has removed       *)
(* before is answered 404.  C6_DeleteThenNotFound is that sentence for as  *)
(* long as no create has been given the id again.                          *)
(***************************************************************************)
\* the ids removed by a DELETE and not given to a new Drink since
Gone == deleted \ DOMAIN store

C6_DeleteEffect ==
    /\ (last'.endpoint = "DELETE /drinks/id" /\ Entitled(last') /\ last'.commitOk
          /\ last'.id \in DOMAIN store) =>
            /\ last'.resp = delete_response(last'.id)
            /\ DOMAIN store' = DOMAIN store \ {last'.id}
            /\ \A j \in DOMAIN store' : store'[j] = store[j]
            /\ last'.id \notin ListedIds(get_drinks(store').resp.drinks)
            /\ last'.id \notin ListedIds(get_drinks_detail(store').resp.drinks)
    /\ (last'.endpoint = "DELETE /drinks/id" /\ Entitled(last')
          /\ last'.id \notin DOMAIN store) =>
            /\ last'.resp.status = 404
            /\ store' = store

C7_EveryFailureIsUniform ==
    last.resp.status >= 400 => UniformError(last.resp)

(***************************************************************************)
(* C8.  On every protected endpoint an expired token is answered 401, with *)
(* error 401 and the message of expiry, and a verified token lacking the   *)
(* endpoint's permission is answered 403; the store is unchanged in both   *)
(* cases.                                                                  *)
(***************************************************************************)
C8_ExpiredAndUnderPrivileged ==
    [][ /\ (last'.endpoint \in Protected /\ last'.token.kind = "expired") =>
              /\ last'.resp.status = 401
              /\ last'.resp.error = 401
              /\ last'.resp.message = "ExpiredToken"
              /\ last'.resp.success = FALSE
              /\ store' = store
        /\ (last'.endpoint \in Protected /\ last'.token.kind = "valid"
              /\ Documented(last'.endpoint) \notin last'.token.permissions) =>
              /\ last'.resp.status = 403
              /\ last'.resp.error = 403
              /\ last'.resp.success = FALSE
              /\ store' = store
      ]_vars

C8_Witness ==
    /\ last.endpoint = "PATCH /drinks/id"
    /\ last.token.kind = "valid"
    /\ last.token.permissions = {"post:drinks", "delete:drinks"}
    /\ last.resp.status = 403
    /\ last.id \in DOMAIN store
    /\ last.body.kind = "object"

(***************************************************************************)
(* C9.  An authorized POST /drinks with a JSON object body, the store      *)
(* accepting the commit, succeeds: exactly one Drink is added, under an id *)
(* no existing Drink has, with title defaulting to the empty text and      *)
(* recipe to the empty sequence when omitted; the Drinks already there are *)
(* unchanged; the response is the one-element list of the new Drink in     *)
(* long projection; and the lists show the Drink with those values.        *)
(***************************************************************************)
C9_NewDrink(new) ==
    /\ new \notin DOMAIN store
    /\ DOMAIN store' = DOMAIN store \cup {new}
    /\ \A j \in DOMAIN store : store'[j] = store[j]
    /\ store'[new].id = new
    /\ store'[new].title =
           (IF last'.body.title.t = "absent" THEN "" ELSE last'.body.title.v)
    /\ json_loads(store'[new].recipe) =
           (IF last'.body.recipe.t = "absent" THEN <<>> ELSE last'.body.recipe.v)
    /\ last'.resp.drinks =
           << [id |-> new, title |-> store'[new].title,
               recipe |-> json_loads(store'[new].recipe)] >>
    /\ \E k \in 1..Len(get_drinks_detail(store').resp.drinks) :
           get_drinks_detail(store').resp.drinks[k] = last'.resp.drinks[1]
    /\ \E k \in 1..Len(get_drinks(store').resp.drinks) :
           /\ get_drinks(store').resp.drinks[k].id = new
           /\ get_drinks(store').resp.drinks[k].title = store'[new].title
           /\ Len(get_drinks(store').resp.drinks[k].recipe)
                  = Len(last'.resp.drinks[1].recipe)

C10_AuthorizationBeforeLookup ==
    (last.endpoint \in {"PATCH /drinks/id", "DELETE /drinks/id"} /\ ~Entitled(last)) =>
        /\ ~last.ran
        /\ last.resp.status \in {400, 401, 403}
        /\ last.resp.status =
               (CASE last.token.kind = "malformed" -> 400
                  [] last.token.kind = "valid"     -> 403
                  [] OTHER                         -> 401)
        /\ last.aborted = 0

C10_Witness ==
    /\ last.endpoint = "PATCH /drinks/id"
    /\ last.token.kind = "expired"
    /\ last.id \notin DOMAIN store
    /\ last.body.kind # "object"
    /\ last.resp.status = 401
    /\ DOMAIN store # {}

====
